---- MODULE Spec2Model ----
(***************************************************************************)
(* Battleplanes: a two-player grid game.  The module models one match as   *)
(* it is handled by the two server programs of the repository:             *)
(*   - backend/main.py            (Game + websocket_endpoint), and         *)
(*   - backend/domain/models.py   (Game) driven by                         *)
(*     backend/application/game_service.py (GameService handlers).         *)
(* Every handler is an asyncio coroutine: it runs atomically between two   *)
(* awaits, and the handlers of the two players interleave at the awaits.   *)
(***************************************************************************)
EXTENDS Integers, Sequences, FiniteSets, TLC

(***************************************************************************)
(* Value objects (domain/value_objects.py)                                 *)
(***************************************************************************)
Players == {"player1", "player2"}

Orientations == {"up", "down", "left", "right"}

CellStatus == {"empty", "plane", "head", "hit", "miss", "head_hit"}

GameState == {"waiting", "placing", "playing", "finished"}

\* board_size of is_valid_placement, the 10 of Game.__init__ and Game.attack
BOARD_SIZE == 10

Coords == 0 .. (BOARD_SIZE - 1)

\* Python's None
None == "None"

Opponent(p) == IF p = "player1" THEN "player2" ELSE "player1"

(***************************************************************************)
(* Piece geometry (domain/game_logic.py)                                   *)
(***************************************************************************)
PLANE_MATRIX_UP ==
    << << ".", ".", "H", ".", "." >>,
       << "B", "B", "B", "B", "B" >>,
       << ".", ".", "B", ".", "." >>,
       << ".", "B", "B", "B", "." >> >>

\* [list(row) for row in zip(*matrix[::-1])]
rotate_matrix_right(matrix) ==
    LET rows == Len(matrix)
        cols == Len(matrix[1])
    IN  [i \in 1 .. cols |-> [j \in 1 .. rows |-> matrix[rows - j + 1][i]]]

\* [list(row) for row in zip(*matrix)][::-1]
rotate_matrix_left(matrix) ==
    LET rows == Len(matrix)
        cols == Len(matrix[1])
    IN  [i \in 1 .. cols |-> [j \in 1 .. rows |-> matrix[j][cols - i + 1]]]

\* [row[::-1] for row in matrix[::-1]]
rotate_matrix_180(matrix) ==
    LET rows == Len(matrix)
        cols == Len(matrix[1])
    IN  [i \in 1 .. rows |-> [j \in 1 .. cols |-> matrix[rows - i + 1][cols - j + 1]]]

\* get_oriented_matrix with the two quarter turns exchanged
get_oriented_matrix_swapped(orientation) ==
    IF orientation = "up" THEN PLANE_MATRIX_UP
    ELSE IF orientation = "right" THEN rotate_matrix_left(PLANE_MATRIX_UP)
    ELSE IF orientation = "down" THEN rotate_matrix_180(PLANE_MATRIX_UP)
    ELSE rotate_matrix_right(PLANE_MATRIX_UP)

get_oriented_matrix(orientation) ==
    IF orientation = "up" THEN PLANE_MATRIX_UP
    ELSE IF orientation = "right" THEN rotate_matrix_right(PLANE_MATRIX_UP)
    ELSE IF orientation = "down" THEN rotate_matrix_180(PLANE_MATRIX_UP)
    ELSE rotate_matrix_left(PLANE_MATRIX_UP)

\* The row-major scan "for my, row in enumerate(matrix): for mx, cell in
\* enumerate(row)" as the sequence of the scanned (mx, my, cell).
MatrixScan(matrix) ==
    LET rows == Len(matrix)
        cols == Len(matrix[1])
    IN  [k \in 1 .. rows * cols |->
            LET my == (k - 1) \div cols
                mx == (k - 1) % cols
            IN  [mx |-> mx, my |-> my, cell |-> matrix[my + 1][mx + 1]]]

\* The part of get_plane_positions that depends on the orientation alone:
\* where the first 'H' of the scan is (the first pair of loops, which break
\* at it), and the scanned 'H' and 'B' cells in scan order.
ScanPlane(orientation) ==
    LET matrix == get_oriented_matrix(orientation)
        scan == MatrixScan(matrix)
        hk == CHOOSE k \in 1 .. Len(scan) :
                /\ scan[k].cell = "H"
                /\ \A j \in 1 .. (k - 1) : scan[j].cell # "H"
    IN  [ head_mx |-> scan[hk].mx,
          head_my |-> scan[hk].my,
          heads |-> SelectSeq(scan, LAMBDA c : c.cell = "H"),
          body |-> SelectSeq(scan, LAMBDA c : c.cell = "B") ]

\* ScanPlane, evaluated once per orientation.
OrientedScan == [o \in Orientations |-> ScanPlane(o)]

\* get_plane_positions without its final "positions.insert(0,
\* head_position)": the list holds the nine body cells only.
get_plane_positions_no_insert(head_x, head_y, orientation) ==
    LET s == OrientedScan[orientation]
        Board(c) == << head_x + (c.mx - s.head_mx), head_y + (c.my - s.head_my) >>
    IN  [ positions |-> [i \in 1 .. Len(s.body) |-> Board(s.body[i])],
          head |-> Board(s.heads[Len(s.heads)]) ]

\* get_plane_positions without the "else" of its second scan: the 'H' cell
\* is appended like a body cell and then inserted once more in front.
get_plane_positions_head_kept(head_x, head_y, orientation) ==
    LET s == OrientedScan[orientation]
        Board(c) == << head_x + (c.mx - s.head_mx), head_y + (c.my - s.head_my) >>
        head_position == Board(s.heads[Len(s.heads)])
    IN  [ positions |-> << head_position >> \o
                            [i \in 1 .. Len(s.heads) |-> Board(s.heads[i])] \o
                            [i \in 1 .. Len(s.body) |-> Board(s.body[i])],
          head |-> head_position ]

\* Returns [positions |-> list of cells, head first; head |-> head cell].
get_plane_positions(head_x, head_y, orientation) ==
    LET s == OrientedScan[orientation]
        Board(c) == << head_x + (c.mx - s.head_mx), head_y + (c.my - s.head_my) >>
        \* head_position is assigned at every 'H' of the second scan
        head_position == Board(s.heads[Len(s.heads)])
    IN  [ positions |-> << head_position >> \o
                            [i \in 1 .. Len(s.body) |-> Board(s.body[i])],
          head |-> head_position ]

OutOfBounds(x, y, board_size) ==
    x < 0 \/ x >= board_size \/ y < 0 \/ y >= board_size

\* is_valid_placement with the overlap test "== 'head'" in place of
\* "!= 'empty'": only the heads of earlier planes are seen.
is_valid_placement_heads_only(positions, existing_board, board_size) ==
    LET Bad(i) ==
            LET x == positions[i][1]
                y == positions[i][2]
            IN  IF OutOfBounds(x, y, board_size) THEN TRUE
                ELSE existing_board[y][x] = "head"
        bad == {i \in 1 .. Len(positions) : Bad(i)}
    IN  IF bad = {} THEN [is_valid |-> TRUE, error_msg |-> "Valid placement"]
        ELSE LET i == CHOOSE k \in bad : \A j \in bad : k <= j
             IN  IF OutOfBounds(positions[i][1], positions[i][2], board_size)
                 THEN [is_valid |-> FALSE, error_msg |-> "Plane out of bounds"]
                 ELSE [is_valid |-> FALSE,
                       error_msg |-> "Plane overlaps with another plane"]

\* is_valid_placement without its overlap test.
is_valid_placement_bounds_only(positions, existing_board, board_size) ==
    IF \E i \in 1 .. Len(positions) :
           OutOfBounds(positions[i][1], positions[i][2], board_size)
    THEN [is_valid |-> FALSE, error_msg |-> "Plane out of bounds"]
    ELSE [is_valid |-> TRUE, error_msg |-> "Valid placement"]

\* The first position of the list, in list order, that fails a check decides
\* the answer: bounds are tested before overlap for that one position only.
is_valid_placement(positions, existing_board, board_size) ==
    LET Bad(i) ==
            LET x == positions[i][1]
                y == positions[i][2]
            IN  IF OutOfBounds(x, y, board_size) THEN TRUE
                ELSE existing_board[y][x] # "empty"
        bad == {i \in 1 .. Len(positions) : Bad(i)}
    IN  IF bad = {} THEN [is_valid |-> TRUE, error_msg |-> "Valid placement"]
        ELSE LET i == CHOOSE k \in bad : \A j \in bad : k <= j
             IN  IF OutOfBounds(positions[i][1], positions[i][2], board_size)
                 THEN [is_valid |-> FALSE, error_msg |-> "Plane out of bounds"]
                 ELSE [is_valid |-> FALSE,
                       error_msg |-> "Plane overlaps with another plane"]

(***************************************************************************)
(* Plane and Game (domain/models.py)                                       *)
(***************************************************************************)
EmptyBoard == [y \in Coords |-> [x \in Coords |-> "empty"]]

\* Game.__init__
NewGame ==
    [ players |-> [p \in Players |-> None],
      boards |-> [p \in Players |-> EmptyBoard],
      planes |-> [p \in Players |-> << >>],
      state |-> "waiting",
      current_turn |-> "player1",
      ready |-> [p \in Players |-> FALSE] ]

\* Plane(positions=..., head_position=..., orientation=..., is_destroyed=False)
NewPlane(positions, head, orientation) ==
    [ positions |-> positions,
      head_position |-> head,
      orientation |-> orientation,
      hit_positions |-> << >>,
      is_destroyed |-> FALSE ]

InSeq(e, s) == \E i \in 1 .. Len(s) : s[i] = e

\* receive_attack with its two tests in the other order: "position in
\* self.positions" is asked first, so the head, which is in the list, is
\* answered as an ordinary hit.
receive_attack_body_first(plane, x, y) ==
    LET position == << x, y >>
    IN  IF InSeq(position, plane.positions)
        THEN [ plane |-> [plane EXCEPT !.hit_positions = Append(@, position)],
               result |-> "hit" ]
        ELSE IF position = plane.head_position
        THEN [ plane |-> [plane EXCEPT !.is_destroyed = TRUE,
                                       !.hit_positions = Append(@, position)],
               result |-> "head_hit" ]
        ELSE [ plane |-> plane, result |-> None ]

\* receive_attack setting is_destroyed in both of its branches: any hit of
\* the plane destroys it.
receive_attack_any_hit_destroys(plane, x, y) ==
    LET position == << x, y >>
    IN  IF position = plane.head_position
        THEN [ plane |-> [plane EXCEPT !.is_destroyed = TRUE,
                                       !.hit_positions = Append(@, position)],
               result |-> "head_hit" ]
        ELSE IF InSeq(position, plane.positions)
        THEN [ plane |-> [plane EXCEPT !.is_destroyed = TRUE,
                                       !.hit_positions = Append(@, position)],
               result |-> "hit" ]
        ELSE [ plane |-> plane, result |-> None ]

\* Plane.receive_attack: [plane |-> the plane afterwards, result |-> ...]
receive_attack(plane, x, y) ==
    LET position == << x, y >>
    IN  IF position = plane.head_position
        THEN [ plane |-> [plane EXCEPT !.is_destroyed = TRUE,
                                       !.hit_positions = Append(@, position)],
               result |-> "head_hit" ]
        ELSE IF InSeq(position, plane.positions)
        THEN [ plane |-> [plane EXCEPT !.hit_positions = Append(@, position)],
               result |-> "hit" ]
        ELSE [ plane |-> plane, result |-> None ]

\* add_player with "self.state = GameState.PLACING" in its first branch as
\* well: the phase leaves Waiting at the first join.
add_player_placing_at_once(g, websocket) ==
    IF g.players["player1"] = None
    THEN [ game |-> [g EXCEPT !.players["player1"] = websocket,
                              !.state = "placing"],
           player_id |-> "player1" ]
    ELSE IF g.players["player2"] = None
    THEN [ game |-> [g EXCEPT !.players["player2"] = websocket,
                              !.state = "placing"],
           player_id |-> "player2" ]
    ELSE [ game |-> g, player_id |-> None ]

\* Game.add_player: [game, player_id]
add_player(g, websocket) ==
    IF g.players["player1"] = None
    THEN [ game |-> [g EXCEPT !.players["player1"] = websocket],
           player_id |-> "player1" ]
    ELSE IF g.players["player2"] = None
    THEN [ game |-> [g EXCEPT !.players["player2"] = websocket,
                              !.state = "placing"],
           player_id |-> "player2" ]
    ELSE [ game |-> g, player_id |-> None ]

\* The marking loop without its "if pos == head" branch: every cell of the
\* piece, the head included, is written as plane.
MarkPlane_head_as_plane(board, positions, head) ==
    [y \in Coords |-> [x \in Coords |->
        IF InSeq(<< x, y >>, positions) THEN "plane" ELSE board[y][x]]]

\* The loop "for pos in positions: boards[player_id][y][x] = head / plane".
MarkPlane(board, positions, head) ==
    [y \in Coords |-> [x \in Coords |->
        IF InSeq(<< x, y >>, positions)
        THEN (IF << x, y >> = head THEN "head" ELSE "plane")
        ELSE board[y][x]]]

\* The tail of place_plane shared by both programs: mark the board, store
\* the plane, return (True, "Plane placed successfully").
StorePlane(g, player_id, positions, head, orientation) ==
    [ game |-> [g EXCEPT
                  !.boards[player_id] = MarkPlane(@, positions, head),
                  !.planes[player_id] =
                      Append(@, NewPlane(positions, head, orientation))],
      success |-> TRUE,
      message |-> "Plane placed successfully" ]

\* place_plane writing each cell as soon as that cell has passed its checks,
\* so that a rejected placement leaves the cells before the failing one marked.
place_plane_write_while_checking(g, player_id, plane_data) ==
    IF Len(g.planes[player_id]) >= 2
    THEN [game |-> g, success |-> FALSE, message |-> "Already placed 2 planes"]
    ELSE LET pp == get_plane_positions(plane_data.head_x, plane_data.head_y,
                                       plane_data.orientation)
             v == is_valid_placement(pp.positions, g.boards[player_id], BOARD_SIZE)
             Fails(i) ==
                 IF OutOfBounds(pp.positions[i][1], pp.positions[i][2], BOARD_SIZE)
                 THEN TRUE
                 ELSE g.boards[player_id][pp.positions[i][2]][pp.positions[i][1]]
                          # "empty"
             passed == {i \in 1 .. Len(pp.positions) :
                           \A j \in 1 .. i : ~ Fails(j)}
             written == SubSeq(pp.positions, 1, Cardinality(passed))
         IN  IF ~ v.is_valid
             THEN [game |-> [g EXCEPT !.boards[player_id] =
                                          MarkPlane(@, written, pp.head)],
                   success |-> FALSE, message |-> v.error_msg]
             ELSE StorePlane(g, player_id, pp.positions, pp.head,
                             plane_data.orientation)

\* domain.models.Game.place_plane: [game, success, message]
place_plane(g, player_id, plane_data) ==
    IF Len(g.planes[player_id]) >= 2
    THEN [game |-> g, success |-> FALSE, message |-> "Already placed 2 planes"]
    ELSE LET pp == get_plane_positions(plane_data.head_x, plane_data.head_y,
                                       plane_data.orientation)
             v == is_valid_placement(pp.positions, g.boards[player_id], BOARD_SIZE)
         IN  IF ~ v.is_valid
             THEN [game |-> g, success |-> FALSE, message |-> v.error_msg]
             ELSE StorePlane(g, player_id, pp.positions, pp.head,
                             plane_data.orientation)

\* main.Game.place_plane: the positions are validated before the number of
\* planes is looked at.
main_place_plane(g, player_id, plane_data) ==
    LET pp == get_plane_positions(plane_data.head_x, plane_data.head_y,
                                  plane_data.orientation)
        v == is_valid_placement(pp.positions, g.boards[player_id], BOARD_SIZE)
    IN  IF ~ v.is_valid
        THEN [game |-> g, success |-> FALSE, message |-> v.error_msg]
        ELSE IF Len(g.planes[player_id]) >= 2
        THEN [game |-> g, success |-> FALSE, message |-> "Already placed 2 planes"]
        ELSE StorePlane(g, player_id, pp.positions, pp.head,
                        plane_data.orientation)

\* Game.attack after its bounds check, with "if cell in ('hit', 'head_hit')"
\* as the already-attacked test: a miss is not remembered.
AttackCell_miss_forgotten(g, attacker, x, y) ==
    LET defender == Opponent(attacker)
        cell == g.boards[defender][y][x]
        planes == g.planes[defender]
        struck == {i \in 1 .. Len(planes) :
                      receive_attack(planes[i], x, y).result # None}
    IN  IF cell \in {"hit", "head_hit"}
        THEN [game |-> g, result |-> "already_attacked"]
        ELSE IF struck # {}
        THEN LET i == CHOOSE k \in struck : \A j \in struck : k <= j
                 r == receive_attack(planes[i], x, y)
             IN  [ game |-> [g EXCEPT !.planes[defender][i] = r.plane,
                                      !.boards[defender][y][x] = r.result],
                   result |-> r.result ]
        ELSE [ game |-> [g EXCEPT !.boards[defender][y][x] = "miss"],
               result |-> "miss" ]

\* Game.attack after its bounds check, without the assignment
\* "self.boards[defender][y][x] = result" of its loop: a hit is recorded in
\* the plane and not on the board.
AttackCell_board_unwritten(g, attacker, x, y) ==
    LET defender == Opponent(attacker)
        cell == g.boards[defender][y][x]
        planes == g.planes[defender]
        struck == {i \in 1 .. Len(planes) :
                      receive_attack(planes[i], x, y).result # None}
    IN  IF cell \in {"hit", "head_hit", "miss"}
        THEN [game |-> g, result |-> "already_attacked"]
        ELSE IF struck # {}
        THEN LET i == CHOOSE k \in struck : \A j \in struck : k <= j
                 r == receive_attack(planes[i], x, y)
             IN  [ game |-> [g EXCEPT !.planes[defender][i] = r.plane],
                   result |-> r.result ]
        ELSE [ game |-> [g EXCEPT !.boards[defender][y][x] = "miss"],
               result |-> "miss" ]

\* domain.models.Game.attack after its bounds check: the already-attacked
\* test, the loop over the defender's planes, the miss.
AttackCell(g, attacker, x, y) ==
    LET defender == Opponent(attacker)
        cell == g.boards[defender][y][x]
        planes == g.planes[defender]
        \* the planes whose receive_attack returns a result
        struck == {i \in 1 .. Len(planes) :
                      receive_attack(planes[i], x, y).result # None}
    IN  IF cell \in {"hit", "head_hit", "miss"}
        THEN [game |-> g, result |-> "already_attacked"]
        ELSE IF struck # {}
        THEN LET i == CHOOSE k \in struck : \A j \in struck : k <= j
                 r == receive_attack(planes[i], x, y)
             IN  [ game |-> [g EXCEPT !.planes[defender][i] = r.plane,
                                      !.boards[defender][y][x] = r.result],
                   result |-> r.result ]
        ELSE [ game |-> [g EXCEPT !.boards[defender][y][x] = "miss"],
               result |-> "miss" ]

\* Game.attack with only "x >= 10 or y >= 10" as its bounds check: a negative
\* index then counts from the end of the list, as Python's does.
attack_no_lower_bound(g, attacker, x, y) ==
    IF x >= BOARD_SIZE \/ y >= BOARD_SIZE THEN [game |-> g, result |-> None]
    ELSE AttackCell(g, attacker, x % BOARD_SIZE, y % BOARD_SIZE)

\* domain.models.Game.attack: [game, result]
attack(g, attacker, x, y) ==
    IF OutOfBounds(x, y, BOARD_SIZE) THEN [game |-> g, result |-> None]
    ELSE AttackCell(g, attacker, x, y)

\* main.Game.attack: decided by the status of the cell.
main_attack(g, attacker, x, y) ==
    LET defender == Opponent(attacker)
    IN  IF OutOfBounds(x, y, BOARD_SIZE) THEN [game |-> g, result |-> None]
        ELSE
        LET cell == g.boards[defender][y][x]
            planes == g.planes[defender]
            inPlane == {i \in 1 .. Len(planes) : InSeq(<< x, y >>, planes[i].positions)}
            headOf == {i \in 1 .. Len(planes) : planes[i].head_position = << x, y >>}
            First(S) == CHOOSE k \in S : \A j \in S : k <= j
        IN  IF cell = "plane"
            THEN [ game |->
                     [g EXCEPT
                        !.boards[defender][y][x] = "hit",
                        !.planes[defender] =
                            IF inPlane = {} THEN @
                            ELSE [@ EXCEPT ![First(inPlane)].hit_positions =
                                               Append(@, << x, y >>)]],
                   result |-> "hit" ]
            ELSE IF cell = "head"
            THEN [ game |->
                     [g EXCEPT
                        !.boards[defender][y][x] = "head_hit",
                        !.planes[defender] =
                            IF headOf = {} THEN @
                            ELSE [@ EXCEPT ![First(headOf)].is_destroyed = TRUE,
                                           ![First(headOf)].hit_positions =
                                               Append(@, << x, y >>)]],
                   result |-> "head_hit" ]
            ELSE IF cell = "empty"
            THEN [ game |-> [g EXCEPT !.boards[defender][y][x] = "miss"],
                   result |-> "miss" ]
            ELSE [game |-> g, result |-> "already_attacked"]

DestroyedCount(g, player_id) ==
    Cardinality({i \in 1 .. Len(g.planes[player_id]) :
                    g.planes[player_id][i].is_destroyed})

\* check_winner with "destroyed_count >= 1" as its test: a side has lost as
\* soon as one of its two planes is destroyed.
check_winner_one_destroyed(g) ==
    IF Len(g.planes["player1"]) = 2 /\ DestroyedCount(g, "player1") >= 1
    THEN "player2"
    ELSE IF Len(g.planes["player2"]) = 2 /\ DestroyedCount(g, "player2") >= 1
    THEN "player1"
    ELSE None

\* Game.check_winner: player1 is looked at first.
check_winner(g) ==
    IF Len(g.planes["player1"]) = 2 /\ DestroyedCount(g, "player1") = 2
    THEN "player2"
    ELSE IF Len(g.planes["player2"]) = 2 /\ DestroyedCount(g, "player2") = 2
    THEN "player1"
    ELSE None

\* get_masked_board with 'if cell == "plane"' as its test: heads are passed
\* through.
get_masked_board_head_shown(g, player_id) ==
    LET opponent == Opponent(player_id)
    IN  [y \in Coords |-> [x \in Coords |->
            IF g.boards[opponent][y][x] = "plane" THEN "empty"
            ELSE g.boards[opponent][y][x]]]

\* get_masked_board with the test "cell == 'head'" alone: the body cells of
\* the opponent's pieces are returned as they are.
get_masked_board_plane_shown(g, player_id) ==
    LET opponent == Opponent(player_id)
    IN  [y \in Coords |-> [x \in Coords |->
            IF g.boards[opponent][y][x] = "head" THEN "empty"
            ELSE g.boards[opponent][y][x]]]

\* Game.get_masked_board
get_masked_board(g, player_id) ==
    LET opponent == Opponent(player_id)
    IN  [y \in Coords |-> [x \in Coords |->
            IF g.boards[opponent][y][x] \in {"plane", "head"} THEN "empty"
            ELSE g.boards[opponent][y][x]]]

mark_player_ready(g, player_id) ==
    IF Len(g.planes[player_id]) = 2 THEN [g EXCEPT !.ready[player_id] = TRUE]
    ELSE g

\* are_both_players_ready with "or" where the code has "and".
are_both_players_ready_either(g) == g.ready["player1"] \/ g.ready["player2"]

are_both_players_ready(g) == g.ready["player1"] /\ g.ready["player2"]

start_game(g) ==
    IF are_both_players_ready(g) THEN [g EXCEPT !.state = "playing"] ELSE g

switch_turn(g) == [g EXCEPT !.current_turn = Opponent(g.current_turn)]

finish_game(g) == [g EXCEPT !.state = "finished"]

(***************************************************************************)
(* Inputs of the model                                                     *)
(***************************************************************************)
\* place_plane messages the players may send; the first NumPlaneInputs are
\* used.  The two pieces of the end-to-end scenario, a piece overlapping the
\* first, a piece off the board, a piece off the board whose head lies on
\* the first piece; then further pieces.
PlaneCandidates ==
    << [head_x |-> 5, head_y |-> 2, orientation |-> "up"],
       [head_x |-> 2, head_y |-> 7, orientation |-> "left"],
       [head_x |-> 5, head_y |-> 3, orientation |-> "up"],
       [head_x |-> 1, head_y |-> 5, orientation |-> "right"],
       [head_x |-> 5, head_y |-> 2, orientation |-> "down"],
       [head_x |-> 8, head_y |-> 5, orientation |-> "right"],
       [head_x |-> 5, head_y |-> 8, orientation |-> "up"] >>

\* attack coordinates the players may send; the first NumTargets are used.
\* Both heads and a body cell of the scenario's pieces, an empty cell, a
\* cell off the board; then further cells.
TargetCandidates ==
    << << 5, 2 >>, << 2, 7 >>, << 5, 3 >>, << 2, 2 >>, << -1, 5 >>,
       << 10, 10 >>, << 3, 7 >> >>

NumPlaneInputs == 5

NumTargets == 5

PlaneInputs == 1 .. NumPlaneInputs

Targets == 1 .. NumTargets

(***************************************************************************)
(* State                                                                   *)
(***************************************************************************)
VARIABLES
    impl,         \* which program runs: "main" (main.py) or "service"
    game,         \* the Game object of the match
    connections,  \* active_connections[game_id]: the registered players
    pc,           \* where each player's connection coroutine stands
    hitter,       \* who made the latest accepted attack (None: nobody yet)
    last,         \* the step taken last: the operation, the player, the answer
    probe         \* the call studied apart from a running match, if any

vars == << impl, game, connections, pc, hitter, last, probe >>

Event(op, player, result) ==
    [op |-> op, player |-> player, result |-> result]

\* no call is being studied
NoProbe == [call |-> None]

Init ==
    /\ impl \in {"main", "service"}
    /\ game = NewGame
    /\ connections = {}
    /\ pc = [p \in Players |-> "none"]
    /\ hitter = None
    /\ last = Event("create_game", None, None)
    /\ probe = NoProbe

\* game.place_plane(player_id, data) of the running program
GamePlacePlane(g, player_id, plane_data) ==
    IF impl = "main" THEN main_place_plane(g, player_id, plane_data)
    ELSE place_plane(g, player_id, plane_data)

\* game.attack(player_id, x, y) of the running program
GameAttack(g, attacker, x, y) ==
    IF impl = "main" THEN main_attack(g, attacker, x, y)
    ELSE attack(g, attacker, x, y)

(***************************************************************************)
(* Handlers, one action per stretch of code between two awaits             *)
(***************************************************************************)
\* A websocket arrives: add_player, up to "await connection_manager.connect".
\* A refused websocket (both slots taken) is closed and owns no coroutine.
Connect ==
    LET r == add_player(game, "websocket")
    IN  /\ game' = r.game
        /\ pc' = IF r.player_id = None THEN pc
                 ELSE [pc EXCEPT ![r.player_id] = "connecting"]
        /\ last' = Event("connect", r.player_id,
                         IF r.player_id = None THEN "refused" ELSE "assigned")
        /\ UNCHANGED << probe, impl, connections, hitter >>

\* After websocket.accept(): the connection is registered; the coroutine
\* then sends player_assigned / game_ready and waits for a message.
ConnectRegister(p) ==
    /\ pc[p] = "connecting"
    /\ connections' = connections \cup {p}
    /\ pc' = [pc EXCEPT ![p] = "idle"]
    /\ last' = Event("connected", p, game.state)
    /\ UNCHANGED << probe, impl, game, hitter >>

\* A place_plane message: game.place_plane, up to "await send_to_player".
PlacePlane(p, i) ==
    /\ pc[p] = "idle"
    /\ LET r == GamePlacePlane(game, p, PlaneCandidates[i])
       IN  /\ game' = r.game
           /\ last' = Event("place_plane", p, r.message)
    /\ pc' = [pc EXCEPT ![p] = "placed"]
    /\ UNCHANGED << probe, impl, connections, hitter >>

\* The rest of the place_plane handler: the ready flag and the start.
ReadyAndStart(g, player_id) ==
    IF Len(g.planes[player_id]) = 2
    THEN LET g1 == mark_player_ready(g, player_id)
         IN  IF are_both_players_ready(g1) THEN start_game(g1) ELSE g1
    ELSE g

PlaceFinish(p) ==
    /\ pc[p] = "placed"
    /\ game' = ReadyAndStart(game, p)
    /\ pc' = [pc EXCEPT ![p] = "idle"]
    /\ last' = Event("place_done", p,
                     IF Len(game.planes[p]) = 2 /\ are_both_players_ready(game')
                     THEN "game_started" ELSE None)
    /\ UNCHANGED << probe, impl, connections, hitter >>

\* The attack handler without its "if game.current_turn != player_id" check.
Attack_turn_unchecked(p, t) ==
    LET x == TargetCandidates[t][1]
        y == TargetCandidates[t][2]
    IN  /\ pc[p] = "idle"
        /\ IF game.state # "playing"
           THEN /\ last' = Event("attack", p, "ignored")
                /\ UNCHANGED << game, pc, hitter >>
           ELSE LET r == GameAttack(game, p, x, y)
                IN  /\ game' = r.game
                    /\ last' = Event("attack", p, r.result)
                    /\ IF r.result = None \/ r.result = "already_attacked"
                       THEN UNCHANGED << pc, hitter >>
                       ELSE /\ pc' = [pc EXCEPT ![p] = "attacked"]
                            /\ hitter' = p
        /\ UNCHANGED << probe, impl, connections >>

\* An attack message: the phase and turn checks and game.attack, up to the
\* first await.  A refused attack ends the handler here.
Attack(p, t) ==
    LET x == TargetCandidates[t][1]
        y == TargetCandidates[t][2]
    IN  /\ pc[p] = "idle"
        /\ IF game.state # "playing"
           THEN /\ last' = Event("attack", p, "ignored")
                /\ UNCHANGED << game, pc, hitter >>
           ELSE IF game.current_turn # p
           THEN /\ last' = Event("attack", p, "Not your turn")
                /\ UNCHANGED << game, pc, hitter >>
           ELSE LET r == GameAttack(game, p, x, y)
                IN  /\ game' = r.game
                    /\ last' = Event("attack", p, r.result)
                    /\ IF r.result = None \/ r.result = "already_attacked"
                       THEN UNCHANGED << pc, hitter >>
                       ELSE /\ pc' = [pc EXCEPT ![p] = "attacked"]
                            /\ hitter' = p
        /\ UNCHANGED << probe, impl, connections >>

\* The rest of the attack handler without its "if winner" branch: the turn
\* is switched whatever check_winner returns.
WinnerOrSwitch_winner_ignored(g, player_id) ==
    IF impl = "main" THEN [g EXCEPT !.current_turn = Opponent(player_id)]
    ELSE switch_turn(g)

\* The rest of the attack handler: the winner check, then finish or switch.
\* main.py assigns the attacker's opponent where the service switches.
WinnerOrSwitch(g, player_id) ==
    IF check_winner(g) # None THEN finish_game(g)
    ELSE IF impl = "main" THEN [g EXCEPT !.current_turn = Opponent(player_id)]
    ELSE switch_turn(g)

AttackFinish(p) ==
    /\ pc[p] = "attacked"
    /\ game' = WinnerOrSwitch(game, p)
    /\ pc' = [pc EXCEPT ![p] = "idle"]
    /\ last' = Event("attack_done", p,
                     IF check_winner(game) # None THEN "game_over"
                     ELSE "turn_changed")
    /\ UNCHANGED << probe, impl, connections, hitter >>

\* A disconnection handler that also gives the match up: game.finish_game()
\* is called before the registry entry is removed.
Disconnect_forfeits(p) ==
    /\ pc[p] = "idle"
    /\ game' = finish_game(game)
    /\ connections' = connections \ {p}
    /\ pc' = [pc EXCEPT ![p] = "gone"]
    /\ last' = Event("disconnect", p, None)
    /\ UNCHANGED << probe, impl, hitter >>

\* WebSocketDisconnect while waiting for a message: the registry entry is
\* removed and the coroutine ends.
Disconnect(p) ==
    /\ pc[p] = "idle"
    /\ connections' = connections \ {p}
    /\ pc' = [pc EXCEPT ![p] = "gone"]
    /\ last' = Event("disconnect", p, None)
    /\ UNCHANGED << probe, impl, game, hitter >>

\* A get_boards message: the player's own board and the masked board of the
\* opponent are sent back; nothing is assigned.
GetBoards(p) ==
    /\ pc[p] = "idle"
    /\ last' = Event("get_boards", p, None)
    /\ UNCHANGED << probe, impl, game, connections, pc, hitter >>

Next ==
    \/ Connect
    \/ \E p \in Players : ConnectRegister(p)
    \/ \E p \in Players, i \in PlaneInputs : PlacePlane(p, i)
    \/ \E p \in Players : PlaceFinish(p)
    \/ \E p \in Players, t \in Targets : Attack(p, t)
    \/ \E p \in Players : AttackFinish(p)
    \/ \E p \in Players : Disconnect(p)
    \/ \E p \in Players : GetBoards(p)

Spec == Init /\ [][Next]_vars

(***************************************************************************)
(* The geometry on its own: get_plane_positions called with any anchor on  *)
(* the board or one cell outside it, in any orientation                    *)
(***************************************************************************)
AnchorCoords == -1 .. BOARD_SIZE

\* get_plane_positions(head_x, head_y, orientation) is called; probe keeps
\* the arguments and the returned pair.  The function keeps nothing between
\* two calls, so one call per behaviour is looked at.
CallGetPlanePositions(head_x, head_y, orientation) ==
    /\ probe = NoProbe
    /\ probe' = [ call |-> "get_plane_positions",
                  head_x |-> head_x,
                  head_y |-> head_y,
                  orientation |-> orientation,
                  ret |-> get_plane_positions(head_x, head_y, orientation) ]
    /\ UNCHANGED << impl, game, connections, pc, hitter, last >>

GeoNext ==
    \E head_x \in AnchorCoords, head_y \in AnchorCoords, o \in Orientations :
        CallGetPlanePositions(head_x, head_y, o)

GeoSpec == Init /\ [][GeoNext]_vars

(***************************************************************************)
(* The two Game classes side by side: one main.Game and one                *)
(* domain.models.Game, created together and given the same calls           *)
(***************************************************************************)
\* the longest sequence of calls given to the two objects
MaxCalls == 4

\* Game(game_id) of main.py and of domain/models.py
CreateBoth ==
    /\ probe = NoProbe
    /\ probe' = [ call |-> "create", calls |-> 0,
                  main |-> NewGame, domain |-> NewGame,
                  main_ret |-> None, domain_ret |-> None ]
    /\ UNCHANGED << impl, game, connections, pc, hitter, last >>

\* the two objects exist and may be given one more call
BothCallable == probe.call # None /\ probe.calls < MaxCalls

\* game.add_player(...) on both objects
CallAddPlayer ==
    /\ BothCallable
    /\ LET m == add_player(probe.main, "websocket")
           d == add_player(probe.domain, "websocket")
       IN  probe' = [ call |-> "add_player", calls |-> probe.calls + 1,
                      main |-> m.game, domain |-> d.game,
                      main_ret |-> m.player_id, domain_ret |-> d.player_id ]
    /\ UNCHANGED << impl, game, connections, pc, hitter, last >>

\* game.place_plane(player_id, plane_data) on both objects
CallPlacePlane(p, i) ==
    /\ BothCallable
    /\ LET m == main_place_plane(probe.main, p, PlaneCandidates[i])
           d == place_plane(probe.domain, p, PlaneCandidates[i])
       IN  probe' = [ call |-> "place_plane", calls |-> probe.calls + 1,
                      main |-> m.game, domain |-> d.game,
                      main_ret |-> << m.success, m.message >>,
                      domain_ret |-> << d.success, d.message >> ]
    /\ UNCHANGED << impl, game, connections, pc, hitter, last >>

\* game.attack(attacker, x, y) on both objects
CallAttack(p, t) ==
    /\ BothCallable
    /\ LET m == main_attack(probe.main, p, TargetCandidates[t][1],
                            TargetCandidates[t][2])
           d == attack(probe.domain, p, TargetCandidates[t][1],
                       TargetCandidates[t][2])
       IN  probe' = [ call |-> "attack", calls |-> probe.calls + 1,
                      main |-> m.game, domain |-> d.game,
                      main_ret |-> m.result, domain_ret |-> d.result ]
    /\ UNCHANGED << impl, game, connections, pc, hitter, last >>

LockstepNext ==
    \/ CreateBoth
    \/ CallAddPlayer
    \/ \E p \in Players, i \in PlaneInputs : CallPlacePlane(p, i)
    \/ \E p \in Players, t \in Targets : CallAttack(p, t)

LockstepSpec == Init /\ [][LockstepNext]_vars

(***************************************************************************)
(* Several matches in one process: the dictionary of games and the         *)
(* connection manager's dictionary, both keyed by the match identifier,    *)
(* with the handlers of different matches interleaved at their awaits      *)
(***************************************************************************)
\* the match identifiers create_game hands out
GameIds == {"g1", "g2"}

\* what the players of each match send: in g1 both pieces of a full match
\* and both of their heads, in g2 one piece
MatchPlaneInputs(game_id) == IF game_id = "g1" THEN {1, 2} ELSE {1}

MatchTargets == {1, 2}

\* GameService(): no games, a ConnectionManager without connections
NewRegistry ==
    [ call |-> "registry",
      games |-> [gid \in GameIds |-> NewGame],
      created |-> {},
      active_connections |-> [gid \in GameIds |-> {}],
      pcs |-> [gid \in GameIds |-> [p \in Players |-> "none"]],
      handled |-> None ]

StartService ==
    /\ probe = NoProbe
    /\ probe' = NewRegistry
    /\ UNCHANGED << impl, game, connections, pc, hitter, last >>

\* the process runs
Serving == probe.call = "registry"

\* ConnectionManager.disconnect with the entry of player_id deleted under
\* every match identifier.
manager_disconnect_every_match(active, game_id, player_id) ==
    [gid \in GameIds |-> active[gid] \ {player_id}]

\* ConnectionManager.disconnect
manager_disconnect(active, game_id, player_id) ==
    [active EXCEPT ![game_id] = @ \ {player_id}]

\* the handler of match game_id leaves game g and the coroutine positions
\* pcg behind
Handled(game_id, g, pcg) ==
    probe' = [probe EXCEPT !.games[game_id] = g,
                           !.pcs[game_id] = pcg,
                           !.handled = game_id]

\* create_game: games[game_id] = Game(game_id)
create_game(game_id) ==
    /\ Serving
    /\ game_id \notin probe.created
    /\ probe' = [probe EXCEPT !.games[game_id] = NewGame,
                              !.created = @ \cup {game_id},
                              !.handled = game_id]
    /\ UNCHANGED << impl, game, connections, pc, hitter, last >>

\* a websocket arrives for match game_id: add_player, up to the await
handle_player_connection(game_id) ==
    /\ Serving
    /\ game_id \in probe.created
    /\ LET r == add_player(probe.games[game_id], "websocket")
       IN  Handled(game_id, r.game,
                   IF r.player_id = None THEN probe.pcs[game_id]
                   ELSE [probe.pcs[game_id] EXCEPT ![r.player_id] = "connecting"])
    /\ UNCHANGED << impl, game, connections, pc, hitter, last >>

\* ConnectionManager.connect after websocket.accept()
manager_connect(game_id, p) ==
    /\ Serving
    /\ probe.pcs[game_id][p] = "connecting"
    /\ probe' = [probe EXCEPT !.active_connections[game_id] = @ \cup {p},
                              !.pcs[game_id][p] = "idle",
                              !.handled = game_id]
    /\ UNCHANGED << impl, game, connections, pc, hitter, last >>

\* a place_plane message of match game_id, up to the await
handle_plane_placement(game_id, p, i) ==
    /\ Serving
    /\ probe.pcs[game_id][p] = "idle"
    /\ Handled(game_id, GamePlacePlane(probe.games[game_id], p, PlaneCandidates[i]).game,
               [probe.pcs[game_id] EXCEPT ![p] = "placed"])
    /\ UNCHANGED << impl, game, connections, pc, hitter, last >>

\* the rest of that handler: the ready flag and the start
handle_plane_placement_finish(game_id, p) ==
    /\ Serving
    /\ probe.pcs[game_id][p] = "placed"
    /\ Handled(game_id, ReadyAndStart(probe.games[game_id], p),
               [probe.pcs[game_id] EXCEPT ![p] = "idle"])
    /\ UNCHANGED << impl, game, connections, pc, hitter, last >>

\* an attack message of match game_id, up to the first await
handle_attack(game_id, p, t) ==
    /\ Serving
    /\ probe.pcs[game_id][p] = "idle"
    /\ LET g == probe.games[game_id]
       IN  IF g.state # "playing" \/ g.current_turn # p
           THEN Handled(game_id, g, probe.pcs[game_id])
           ELSE LET r == GameAttack(g, p, TargetCandidates[t][1],
                                    TargetCandidates[t][2])
                IN  Handled(game_id, r.game,
                            IF r.result = None \/ r.result = "already_attacked"
                            THEN probe.pcs[game_id]
                            ELSE [probe.pcs[game_id] EXCEPT ![p] = "attacked"])
    /\ UNCHANGED << impl, game, connections, pc, hitter, last >>

\* the rest of that handler: the winner check, then finish or switch
handle_attack_finish(game_id, p) ==
    /\ Serving
    /\ probe.pcs[game_id][p] = "attacked"
    /\ Handled(game_id, WinnerOrSwitch(probe.games[game_id], p),
               [probe.pcs[game_id] EXCEPT ![p] = "idle"])
    /\ UNCHANGED << impl, game, connections, pc, hitter, last >>

\* WebSocketDisconnect in match game_id
handle_player_disconnection(game_id, p) ==
    /\ Serving
    /\ probe.pcs[game_id][p] = "idle"
    /\ probe' = [probe EXCEPT !.active_connections =
                                  manager_disconnect(@, game_id, p),
                              !.pcs[game_id][p] = "gone",
                              !.handled = game_id]
    /\ UNCHANGED << impl, game, connections, pc, hitter, last >>

MultiNext ==
    \/ StartService
    \/ \E gid \in GameIds : create_game(gid)
    \/ \E gid \in GameIds : handle_player_connection(gid)
    \/ \E gid \in GameIds, p \in Players : manager_connect(gid, p)
    \/ \E gid \in GameIds, p \in Players :
          \E i \in MatchPlaneInputs(gid) : handle_plane_placement(gid, p, i)
    \/ \E gid \in GameIds, p \in Players : handle_plane_placement_finish(gid, p)
    \/ \E gid \in GameIds, p \in Players, t \in MatchTargets :
          handle_attack(gid, p, t)
    \/ \E gid \in GameIds, p \in Players : handle_attack_finish(gid, p)
    \/ \E gid \in GameIds, p \in Players : handle_player_disconnection(gid, p)

MultiSpec == Init /\ [][MultiNext]_vars

(***************************************************************************)
(* Two runs of one match side by side: the pieces are placed in each run   *)
(* on its own, every attack is made in both runs, and a player asks for    *)
(* the masked board of the opponent in both                                *)
(***************************************************************************)
Runs == {1, 2}

\* the pieces placed and the cells attacked in the two runs
PairPlaneInputs == {1, 2, 3}

PairTargets == {1, 3, 4}

\* Game(game_id) in both runs
StartPair ==
    /\ probe = NoProbe
    /\ probe' = [ call |-> "create", calls |-> 0,
                  runs |-> [r \in Runs |-> NewGame],
                  viewer |-> None,
                  masked |-> [r \in Runs |-> None] ]
    /\ UNCHANGED << impl, game, connections, pc, hitter, last >>

\* the two runs exist and may be given one more call
PairCallable ==
    /\ probe.call \in {"create", "place_plane", "attack", "get_masked_board"}
    /\ probe.calls < MaxCalls

\* game.place_plane(p, plane_data) in run r alone
PairPlacePlane(r, p, i) ==
    /\ PairCallable
    /\ probe' = [probe EXCEPT
                    !.call = "place_plane",
                    !.calls = @ + 1,
                    !.runs[r] = GamePlacePlane(@, p, PlaneCandidates[i]).game]
    /\ UNCHANGED << impl, game, connections, pc, hitter, last >>

\* game.attack(p, x, y) in both runs
PairAttack(p, t) ==
    /\ PairCallable
    /\ probe' = [probe EXCEPT
                    !.call = "attack",
                    !.calls = @ + 1,
                    !.runs = [r \in Runs |->
                                GameAttack(probe.runs[r], p, TargetCandidates[t][1],
                                           TargetCandidates[t][2]).game]]
    /\ UNCHANGED << impl, game, connections, pc, hitter, last >>

\* game.get_masked_board(p) in both runs
PairGetMaskedBoard(p) ==
    /\ PairCallable
    /\ probe' = [probe EXCEPT
                    !.call = "get_masked_board",
                    !.calls = @ + 1,
                    !.viewer = p,
                    !.masked = [r \in Runs |-> get_masked_board(probe.runs[r], p)]]
    /\ UNCHANGED << impl, game, connections, pc, hitter, last >>

PairNext ==
    \/ StartPair
    \/ \E r \in Runs, p \in Players, i \in PairPlaneInputs : PairPlacePlane(r, p, i)
    \/ \E p \in Players, t \in PairTargets : PairAttack(p, t)
    \/ \E p \in Players : PairGetMaskedBoard(p)

PairSpec == Init /\ [][PairNext]_vars

(***************************************************************************)
(* A match whose players stay connected and keep attacking: each handler   *)
(* that waits at an await is resumed, and a player who can attack a cell   *)
(* not attacked before does so sooner or later                             *)
(***************************************************************************)
\* the pieces the players of this match send
LivePlaneInputs == {1, 2}

\* the cells they attack: the heads of these pieces and an empty cell
LiveTargets == {1, 2, 4}

\* an attack message of player p that is applied to a cell of the opponent's
\* board not attacked before
FreshAttack(p) ==
    \E t \in LiveTargets : Attack(p, t) /\ pc'[p] = "attacked"

LiveNext ==
    \/ Connect
    \/ \E p \in Players : ConnectRegister(p)
    \/ \E p \in Players, i \in LivePlaneInputs : PlacePlane(p, i)
    \/ \E p \in Players : PlaceFinish(p)
    \/ \E p \in Players, t \in LiveTargets : Attack(p, t)
    \/ \E p \in Players : AttackFinish(p)

LiveSpec ==
    /\ Init
    /\ [][LiveNext]_vars
    /\ \A p \in Players : WF_vars(PlaceFinish(p))
    /\ \A p \in Players : WF_vars(AttackFinish(p))
    /\ \A p \in Players : SF_vars(FreshAttack(p))

(***************************************************************************)
(* Well-formedness of the state                                            *)
(***************************************************************************)
TypeOK ==
    /\ impl \in {"main", "service"}
    /\ game.state \in GameState
    /\ game.current_turn \in Players
    /\ \A p \in Players :
        /\ game.ready[p] \in BOOLEAN
        /\ game.players[p] \in {None, "websocket"}
        /\ Len(game.planes[p]) \in 0 .. 2
        /\ DOMAIN game.boards[p] = Coords
    /\ connections \subseteq Players
    /\ \A p \in Players :
        pc[p] \in {"none", "connecting", "idle", "placed", "attacked", "gone"}
    /\ hitter \in Players \cup {None}

(***************************************************************************)
(* Vocabulary of the properties                                            *)
(***************************************************************************)
PhaseRank(st) ==
    CASE st = "waiting" -> 0
      [] st = "placing" -> 1
      [] st = "playing" -> 2
      [] st = "finished" -> 3

AttackedStatus == {"hit", "head_hit", "miss"}

AcceptedResults == {"hit", "head_hit", "miss"}

TargetX(t) == TargetCandidates[t][1]

TargetY(t) == TargetCandidates[t][2]

TargetOnBoard(t) == TargetX(t) \in Coords /\ TargetY(t) \in Coords

\* the 10 cells computed for place_plane input i
InputCells(i) ==
    get_plane_positions(PlaneCandidates[i].head_x, PlaneCandidates[i].head_y,
                        PlaneCandidates[i].orientation).positions

\* the cells computed for every place_plane input, as a table
CandidateCells ==
    [i \in 1 .. Len(PlaneCandidates) |->
        get_plane_positions(PlaneCandidates[i].head_x, PlaneCandidates[i].head_y,
                            PlaneCandidates[i].orientation).positions]

\* the same cells as sets
CandidateCellSet ==
    [i \in 1 .. Len(PlaneCandidates) |->
        {CandidateCells[i][k] : k \in 1 .. Len(CandidateCells[i])}]

\* the anchor of place_plane input i
Anchor(i) == << PlaneCandidates[i].head_x, PlaneCandidates[i].head_y >>

CellOnBoard(c) == c[1] \in Coords /\ c[2] \in Coords

InputOnBoard(i) == \A k \in 1 .. Len(InputCells(i)) : CellOnBoard(InputCells(i)[k])

\* some cell of input i belongs to a piece player p placed earlier
InputMeetsPiece(g, p, i) ==
    \E k \in 1 .. Len(InputCells(i)) : \E j \in 1 .. Len(g.planes[p]) :
        InSeq(InputCells(i)[k], g.planes[p][j].positions)

BothDestroyed(g, p) ==
    Len(g.planes[p]) = 2 /\ \A j \in 1 .. 2 : g.planes[p][j].is_destroyed

\* no handler of the match is suspended at an await
Quiescent == \A p \in Players : pc[p] \in {"none", "idle", "gone"}

\* this step is player p's attack message being accepted by game.attack
AcceptedAttackStep(p) == pc[p] = "idle" /\ pc'[p] = "attacked"

\* this step is player p's attack message with target t being handled up to
\* the handler's first await or its return
AttackStep(p, t) ==
    /\ pc[p] = "idle"
    /\ last'.op = "attack"
    /\ last'.player = p
    /\ Attack(p, t)

\* this step is player p's place_plane message with input i being handled
\* up to the return of game.place_plane
PlacePlaneStep(p, i) ==
    /\ pc[p] = "idle"
    /\ pc'[p] = "placed"
    /\ last'.player = p
    /\ PlacePlane(p, i)

(***************************************************************************)
(* Properties                                                              *)
(***************************************************************************)
\* C1: in every step the phase stays where it is or moves to the next phase
\* of Waiting -> Placing -> Playing -> Finished; it enters Placing only in a
\* step that claims the second slot, Playing only with both ready flags true,
\* Finished only with a winner detected.
C1_PhaseOnlyForward ==
    [][ /\ PhaseRank(game'.state) >= PhaseRank(game.state)
        /\ PhaseRank(game'.state) <= PhaseRank(game.state) + 1
        /\ (game'.state # game.state /\ game'.state = "placing") =>
              game.players["player2"] = None /\ game'.players["player2"] # None
        /\ (game'.state # game.state /\ game'.state = "playing") =>
              are_both_players_ready(game')
        /\ (game'.state # game.state /\ game'.state = "finished") =>
              check_winner(game') # None ]_vars

\* C2: once the phase is Finished no step changes the Game: phase, boards,
\* pieces and turn stay as they were.
C2_FinishedIsFinal ==
    [][ game.state = "finished" => game' = game ]_vars

\* C3: an attack message sent while the phase is not Playing, or by the
\* player whose turn it is not, or with x or y outside 0..9, is refused (the
\* handler ends without an accepted result) and the Game - both boards, all
\* pieces, the phase, the turn - is unchanged.
C3_RefusedAttackChangesNothing ==
    [][ \A p \in Players : \A t \in Targets :
          ( /\ AttackStep(p, t)
            /\ \/ game.state # "playing"
               \/ game.current_turn # p
               \/ ~ TargetOnBoard(t) )
          => /\ game' = game
             /\ pc'[p] = "idle"
             /\ hitter' = hitter
             /\ last'.result \in {"ignored", "Not your turn", None} ]_vars

\* C3 witness: in the Playing phase the player whose turn it is has sent an
\* attack with a coordinate off the board, and Game.attack returned None.
C3_Witness ==
    /\ last.op = "attack"
    /\ last.result = None
    /\ game.state = "playing"
    /\ game.current_turn = last.player

\* The part of C4 about one attack: when the handler of an accepted attack
\* ends, either both pieces of the defender are destroyed, the phase is
\* Finished, the attacker is the winner and the turn is as before, or the
\* turn is the defender's and the phase is as before.
C4_AfterAcceptedAttack ==
    [][ \A p \in Players :
          (pc[p] = "attacked" /\ pc'[p] = "idle") =>
            IF BothDestroyed(game, Opponent(p))
            THEN /\ game'.state = "finished"
                 /\ check_winner(game') = p
                 /\ game'.current_turn = game.current_turn
            ELSE /\ game'.current_turn = Opponent(p)
                 /\ game'.state = game.state ]_vars

\* C4: every accepted attack ends as C4_AfterAcceptedAttack says, and no
\* player makes two accepted (board-changing) attacks in a row.
C4_TurnsAlternate ==
    [][ /\ \A p \in Players :
            (pc[p] = "attacked" /\ pc'[p] = "idle") =>
              IF BothDestroyed(game, Opponent(p))
              THEN /\ game'.state = "finished"
                   /\ check_winner(game') = p
                   /\ game'.current_turn = game.current_turn
              ELSE /\ game'.current_turn = Opponent(p)
                   /\ game'.state = game.state
        /\ \A p \in Players : AcceptedAttackStep(p) => hitter # p ]_vars

\* C5: an attack by the turn holder, in the Playing phase, on a cell of the
\* defender's board that is hit, head_hit or miss returns already_attacked
\* and changes nothing: boards, pieces, phase and turn are as before and the
\* handler ends (the same player may attack again).  An accepted attack
\* leaves its cell hit, head_hit or miss, and no step changes such a cell, so
\* every later attack on the cell is of the first kind.
C5_AlreadyAttackedIsNoOp ==
    [][ /\ \A p \in Players : \A t \in Targets :
            ( /\ AttackStep(p, t)
              /\ game.state = "playing"
              /\ game.current_turn = p
              /\ TargetOnBoard(t) )
            => IF game.boards[Opponent(p)][TargetY(t)][TargetX(t)] \in AttackedStatus
               THEN /\ last'.result = "already_attacked"
                    /\ game' = game
                    /\ pc' = pc
                    /\ hitter' = hitter
               ELSE /\ last'.result \in AcceptedResults
                    /\ game'.boards[Opponent(p)][TargetY(t)][TargetX(t)]
                         = last'.result
        /\ \A p \in Players :
            \/ game'.boards[p] = game.boards[p]
            \/ \A y \in Coords : \A x \in Coords :
                  game.boards[p][y][x] \in AttackedStatus =>
                    game'.boards[p][y][x] = game.boards[p][y][x] ]_vars

\* C5 witness: the turn holder attacked a cell that had been attacked before
\* and got already_attacked.
C5_Witness ==
    /\ last.op = "attack"
    /\ last.result = "already_attacked"
    /\ game.state = "playing"
    /\ game.current_turn = last.player
    /\ pc[last.player] = "idle"

\* C6: whenever no handler is in progress, the phase is Finished exactly if
\* some side has two pieces that are both destroyed; check_winner is None
\* while no side has two destroyed pieces, and otherwise is the opponent of
\* such a side and is the player of the latest accepted attack.
C6_FinishedIffBothDestroyed ==
    /\ Quiescent =>
         (game.state = "finished" <=> \E p \in Players : BothDestroyed(game, p))
    /\ (\A p \in Players : ~ BothDestroyed(game, p)) => check_winner(game) = None
    /\ (\E p \in Players : BothDestroyed(game, p)) =>
         /\ check_winner(game) \in Players
         /\ BothDestroyed(game, Opponent(check_winner(game)))
         /\ check_winner(game) = hitter

\* C7: no side ever holds more than 2 pieces, and every place_plane call of
\* a side holding 2 pieces fails with "Already placed 2 planes", whatever
\* its anchor and orientation, and changes neither board nor piece list.
C7_ThirdPlaneAlreadyComplete ==
    [][ \A p \in Players :
          /\ Len(game'.planes[p]) <= 2
          /\ \A i \in PlaneInputs :
               (PlacePlaneStep(p, i) /\ Len(game.planes[p]) = 2) =>
                 /\ last'.result = "Already placed 2 planes"
                 /\ game' = game ]_vars

C9_OutOfBoundsIffCellOffBoard ==
    [][ \A p \in Players : \A i \in PlaneInputs :
          (PlacePlaneStep(p, i) /\ Len(game.planes[p]) < 2) =>
             (last'.result = "Plane out of bounds" <=> ~ InputOnBoard(i)) ]_vars

\* C10: for a side holding fewer than 2 pieces and a placement whose 10
\* cells are all on the board, place_plane answers "Plane overlaps with
\* another plane" and changes nothing if one of the cells belongs to a piece
\* the side placed earlier, and otherwise succeeds and adds the piece.
C10_OverlapRejectedElseAccepted ==
    [][ \A p \in Players : \A i \in PlaneInputs :
          ( /\ PlacePlaneStep(p, i)
            /\ Len(game.planes[p]) < 2
            /\ InputOnBoard(i) )
          => IF InputMeetsPiece(game, p, i)
             THEN /\ last'.result = "Plane overlaps with another plane"
                  /\ game' = game
             ELSE /\ last'.result = "Plane placed successfully"
                  /\ Len(game'.planes[p]) = Len(game.planes[p]) + 1
                  /\ game'.planes[p][Len(game'.planes[p])].positions
                       = InputCells(i) ]_vars

\* C10 witness: a side holding one piece had an on-board placement refused
\* for overlap.
C10_Witness ==
    /\ last.op = "place_plane"
    /\ last.result = "Plane overlaps with another plane"
    /\ Len(game.planes[last.player]) = 1
    /\ game.state = "placing"

\* C11: a successful place_plane changes exactly the 10 computed cells of the
\* placing side's board - the anchor cell becomes head, the other nine become
\* plane - and appends exactly one piece, not destroyed and with no hit
\* cells, to that side; every other cell of that board, the opponent's
\* board, the opponent's pieces and the turn are as before.
C11_SuccessfulPlacementEffect ==
    [][ \A p \in Players : \A i \in PlaneInputs :
          (PlacePlaneStep(p, i) /\ last'.result = "Plane placed successfully") =>
             /\ Cardinality(CandidateCellSet[i]) = 10
             /\ Anchor(i) \in CandidateCellSet[i]
             /\ \A c \in CandidateCellSet[i] :
                   /\ CellOnBoard(c)
                   /\ game.boards[p][c[2]][c[1]] = "empty"
                   /\ game'.boards[p][c[2]][c[1]] =
                        IF c = Anchor(i) THEN "head" ELSE "plane"
             /\ \A y \in Coords : \A x \in Coords :
                   << x, y >> \notin CandidateCellSet[i] =>
                      game'.boards[p][y][x] = game.boards[p][y][x]
             /\ Len(game'.planes[p]) = Len(game.planes[p]) + 1
             /\ SubSeq(game'.planes[p], 1, Len(game.planes[p])) = game.planes[p]
             /\ LET piece == game'.planes[p][Len(game'.planes[p])]
                IN  /\ piece.positions = CandidateCells[i]
                    /\ piece.head_position = Anchor(i)
                    /\ piece.is_destroyed = FALSE
                    /\ piece.hit_positions = << >>
             /\ game'.boards[Opponent(p)] = game.boards[Opponent(p)]
             /\ game'.planes[Opponent(p)] = game.planes[Opponent(p)]
             /\ game'.current_turn = game.current_turn ]_vars

\* C11 witness: a side has just placed its second piece, next to the first,
\* while the opponent already holds a piece.
C11_Witness ==
    /\ last.op = "place_plane"
    /\ last.result = "Plane placed successfully"
    /\ pc[last.player] = "placed"
    /\ Len(game.planes[last.player]) = 2
    /\ Len(game.planes[Opponent(last.player)]) >= 1

\* this step is the turn holder p, in the Playing phase, attacking the
\* on-board target t whose cell has not been attacked yet
FreshAttackStep(p, t) ==
    /\ AttackStep(p, t)
    /\ game.state = "playing"
    /\ game.current_turn = p
    /\ TargetOnBoard(t)
    /\ game.boards[Opponent(p)][TargetY(t)][TargetX(t)] \notin AttackedStatus

\* the outcome the status of the attacked cell calls for
OutcomeOf(cell) ==
    CASE cell = "head" -> "head_hit"
      [] cell = "plane" -> "hit"
      [] cell = "empty" -> "miss"
      [] OTHER -> "already_attacked"

\* C12: an in-bounds attack on a cell not yet attacked is resolved by the
\* status of the defender's cell: head becomes head_hit, plane becomes hit,
\* empty becomes miss, and that is the result; only that one cell of the
\* defender's board changes and the attacker's own board is untouched.
C12_AttackResolvedByCellStatus ==
    [][ \A p \in Players : \A t \in Targets :
          FreshAttackStep(p, t) =>
             LET d == Opponent(p)
                 x == TargetX(t)
                 y == TargetY(t)
                 cell == game.boards[d][y][x]
             IN  /\ cell \in {"head", "plane", "empty"}
                 /\ last'.result = OutcomeOf(cell)
                 /\ game'.boards[d] =
                      [game.boards[d] EXCEPT ![y][x] = OutcomeOf(cell)]
                 /\ game'.boards[p] = game.boards[p] ]_vars

\* C12 witness: an attack on a body cell of a piece was answered hit and the
\* defender's cell now reads hit, while the head of that piece is unattacked.
C12_Witness ==
    /\ last.op = "attack"
    /\ last.result = "hit"
    /\ pc[last.player] = "attacked"
    /\ game.boards[Opponent(last.player)][3][5] = "hit"
    /\ game.boards[Opponent(last.player)][2][5] = "head"

\* C13: an attack answered head_hit marks destroyed exactly the one piece of
\* the defender whose head is the attacked cell, and no other piece; an
\* attack answered hit records the cell against exactly the one piece of the
\* defender that contains it and sets no piece's destroyed flag.
C13_OnlyHeadHitDestroys ==
    [][ \A p \in Players : \A t \in Targets :
          (AttackStep(p, t) /\ pc'[p] = "attacked") =>
             LET d == Opponent(p)
                 c == << TargetX(t), TargetY(t) >>
                 old == game.planes[d]
                 new == game'.planes[d]
                 heads == {j \in 1 .. Len(old) : old[j].head_position = c}
                 holders == {j \in 1 .. Len(old) : InSeq(c, old[j].positions)}
             IN  /\ Len(new) = Len(old)
                 /\ game'.planes[p] = game.planes[p]
                 /\ last'.result = "head_hit" =>
                      /\ Cardinality(heads) = 1
                      /\ \A j \in 1 .. Len(old) :
                           IF j \in heads
                           THEN /\ ~ old[j].is_destroyed
                                /\ new[j] = [old[j] EXCEPT
                                      !.is_destroyed = TRUE,
                                      !.hit_positions = Append(@, c)]
                           ELSE new[j] = old[j]
                 /\ last'.result = "hit" =>
                      /\ Cardinality(holders) = 1
                      /\ \A j \in 1 .. Len(old) :
                           /\ new[j].is_destroyed = old[j].is_destroyed
                           /\ IF j \in holders
                              THEN new[j] = [old[j] EXCEPT
                                      !.hit_positions = Append(@, c)]
                              ELSE new[j] = old[j] ]_vars

\* C13 witness: a head_hit has just destroyed one of the defender's two
\* pieces; the other piece has a cell hit and is not destroyed.
C13_Witness ==
    /\ last.op = "attack"
    /\ last.result = "head_hit"
    /\ pc[last.player] = "attacked"
    /\ LET planes == game.planes[Opponent(last.player)]
       IN  /\ Len(planes) = 2
           /\ \E j \in 1 .. 2 :
                 /\ planes[j].is_destroyed
                 /\ ~ planes[3 - j].is_destroyed
                 /\ planes[3 - j].hit_positions # << >>

\* the elements of a list, as a set
SeqToSet(s) == {s[k] : k \in 1 .. Len(s)}

\* what C14 says of one piece at one moment
PieceWellFormed(plane) ==
    /\ Len(plane.positions) = 10
    /\ Cardinality(SeqToSet(plane.positions)) = 10
    /\ plane.head_position \in SeqToSet(plane.positions)
    /\ Cardinality(SeqToSet(plane.hit_positions)) = Len(plane.hit_positions)
    /\ SeqToSet(plane.hit_positions) \subseteq SeqToSet(plane.positions)
    /\ plane.is_destroyed <=> plane.head_position \in SeqToSet(plane.hit_positions)

\* C14: in every reachable state every placed piece has exactly 10 distinct
\* cells, its head cell among them, its hit cells are a duplicate-free subset
\* of its cells, and it is destroyed exactly if its head cell is among its
\* hit cells; and no step changes the cells of a piece that is placed.
C14_PiecesWellFormed ==
    /\ [](\A p \in Players : \A j \in 1 .. Len(game.planes[p]) :
              PieceWellFormed(game.planes[p][j]))
    /\ [][ \A p \in Players : \A j \in 1 .. Len(game.planes[p]) :
              /\ j <= Len(game'.planes[p])
              /\ game'.planes[p][j].positions = game.planes[p][j].positions
              /\ game'.planes[p][j].head_position
                    = game.planes[p][j].head_position ]_vars

\* C14 witness: a destroyed piece that was hit on a body cell before its head
\* was hit, next to an untouched piece of the same side.
C14_Witness ==
    \E p \in Players :
        /\ Len(game.planes[p]) = 2
        /\ \E j \in 1 .. 2 :
              /\ game.planes[p][j].is_destroyed
              /\ Len(game.planes[p][j].hit_positions) = 2
              /\ game.planes[p][j].hit_positions[2]
                    = game.planes[p][j].head_position
              /\ ~ game.planes[p][3 - j].is_destroyed
              /\ game.planes[p][3 - j].hit_positions = << >>

\* C15: in every reachable state, those with a handler suspended at an await
\* included, ready[side] is true exactly if the side holds 2 pieces.
C15_ReadyIffTwoPieces ==
    \A p \in Players : game.ready[p] <=> Len(game.planes[p]) = 2

\* C16: every time the phase becomes Playing the turn is player1, the side
\* that joined first; the first attack accepted in the match is made by
\* player1; and no step taken before the phase is Playing changes the turn.
C16_PlayingStartsWithPlayer1 ==
    [][ /\ (game.state # "playing" /\ game'.state = "playing") =>
              game'.current_turn = "player1"
        /\ \A p \in Players :
              (AcceptedAttackStep(p) /\ hitter = None) => p = "player1"
        /\ game.state \in {"waiting", "placing"} =>
              game'.current_turn = game.current_turn ]_vars

\* this step is a websocket arriving for the match (a join attempt)
JoinStep == last'.op = "connect" /\ Connect

\* C17: the first join is assigned player1 and the second player2; the phase
\* changes from Waiting to Placing exactly in the step of the second join;
\* every later join attempt is refused and changes neither the phase, nor
\* the claimed slots, nor anything else of the match.
C17_JoinAssignsSlotsInOrder ==
    [][ /\ JoinStep =>
              IF game.players["player1"] = None
              THEN /\ last'.player = "player1"
                   /\ game' = [game EXCEPT !.players["player1"] = "websocket"]
                   /\ game'.state = "waiting"
              ELSE IF game.players["player2"] = None
              THEN /\ last'.player = "player2"
                   /\ game' = [game EXCEPT !.players["player2"] = "websocket",
                                           !.state = "placing"]
                   /\ game.state = "waiting"
              ELSE /\ last'.result = "refused"
                   /\ last'.player = None
                   /\ game' = game
                   /\ connections' = connections
                   /\ pc' = pc
                   /\ hitter' = hitter
        /\ (game.state = "waiting" /\ game'.state # "waiting") =>
              /\ JoinStep
              /\ game.players["player1"] # None
              /\ game.players["player2"] = None
              /\ game'.state = "placing"
        /\ \A p \in Players :
              game.players[p] # None => game'.players[p] = game.players[p] ]_vars

\* C17 witness: with both slots claimed and the match in the Playing phase,
\* a further websocket arrived and was refused.
C17_Witness ==
    /\ last.op = "connect"
    /\ last.result = "refused"
    /\ game.state = "playing"
    /\ \A p \in Players : game.players[p] # None

\* this step is player p's get_boards message being answered
GetBoardsStep(p) == last'.op = "get_boards" /\ last'.player = p /\ GetBoards(p)

\* what C18 says of the masked board handed to player p
MaskedBoardHidesPieces(p) ==
    LET masked == get_masked_board(game, p)
        board == game.boards[Opponent(p)]
    IN  /\ DOMAIN masked = Coords
        /\ \A y \in Coords :
              /\ DOMAIN masked[y] = Coords
              /\ \A x \in Coords :
                    /\ masked[y][x] \notin {"plane", "head"}
                    /\ board[y][x] \in {"plane", "head"} => masked[y][x] = "empty"
                    /\ board[y][x] \in {"empty", "hit", "head_hit", "miss"} =>
                          masked[y][x] = board[y][x]

\* C18: in every reachable state the masked board returned to a player for
\* the opponent's board holds no plane and no head: an opponent cell that is
\* plane or head appears as empty, a cell that is empty, hit, head_hit or
\* miss appears unchanged at the same row and column; and answering a
\* get_boards message changes no state.
C18_MaskedBoardHidesPieces ==
    /\ [](\A p \in Players : MaskedBoardHidesPieces(p))
    /\ [][ \A p \in Players :
              GetBoardsStep(p) =>
                 /\ game' = game
                 /\ connections' = connections
                 /\ pc' = pc
                 /\ hitter' = hitter ]_vars

\* C18 witness: a player asked for the boards in the Playing phase while the
\* opponent's board held an unattacked head, a hit body cell and a miss.
C18_Witness ==
    /\ last.op = "get_boards"
    /\ game.state = "playing"
    /\ LET board == game.boards[Opponent(last.player)]
       IN  /\ board[2][5] = "head"
           /\ board[3][5] = "hit"
           /\ board[2][2] = "miss"

\* this step is player p's connection being found closed
DisconnectStep(p) ==
    last'.op = "disconnect" /\ last'.player = p /\ Disconnect(p)

\* C19: a player's disconnection changes nothing in the Game - the phase, the
\* turn, the ready flags, both boards, all pieces and the claimed slots are
\* as before - and removes only that player's entry of the connection
\* registry; the match is neither forfeited nor finished.
C19_DisconnectLeavesGame ==
    [][ \A p \in Players :
          DisconnectStep(p) =>
             /\ game' = game
             /\ game'.state = game.state
             /\ game'.players[p] # None
             /\ p \in connections
             /\ connections' = connections \ {p}
             /\ hitter' = hitter ]_vars

\* C19 witness: in the Playing phase the player whose turn it is has
\* disconnected; the opponent is still registered.
C19_Witness ==
    /\ last.op = "disconnect"
    /\ game.state = "playing"
    /\ game.current_turn = last.player
    /\ last.player \notin connections
    /\ Opponent(last.player) \in connections

\* player p's message handler has started and is suspended at an await
InHandler(p) == pc[p] \in {"placed", "attacked"}

\* this step starts the handling of a message (place_plane, attack or
\* get_boards) of player p
MessageStartStep(p) ==
    /\ pc[p] = "idle"
    /\ last'.player = p
    /\ last'.op \in {"place_plane", "attack", "get_boards"}
    /\ last' # last \/ pc' # pc \/ game' # game

\* C20: the commands of a match are serialized: at no moment are two message
\* handlers in progress, and while a handler is in progress no other message
\* of the match starts being handled - the handler runs to its end, its
\* ready/start step or its winner/turn-switch step included, first.
C20_HandlersSerialized ==
    /\ [](Cardinality({p \in Players : InHandler(p)}) <= 1)
    /\ [][ \A q \in Players : \A p \in Players :
              InHandler(q) => ~ MessageStartStep(p) ]_vars

\* a call of get_plane_positions has been made and probe holds it
GeoCalled == probe.call = "get_plane_positions"

\* C21: for each of the four orientations and every anchor (x, y) with
\* 0 <= x, y <= 9, get_plane_positions returns a list of exactly 10 pairwise
\* distinct cells whose first element is the head, and the head is the
\* anchor.
C21_TenDistinctCellsHeadFirst ==
    (GeoCalled /\ probe.head_x \in Coords /\ probe.head_y \in Coords) =>
        /\ Len(probe.ret.positions) = 10
        /\ Cardinality({probe.ret.positions[k] : k \in 1 .. 10}) = 10
        /\ probe.ret.positions[1] = probe.ret.head
        /\ probe.ret.head = << probe.head_x, probe.head_y >>

\* C21 witness: the call with the corner anchor (9, 9) and orientation left,
\* whose body leaves the board.
C21_Witness ==
    /\ GeoCalled
    /\ probe.head_x = 9
    /\ probe.head_y = 9
    /\ probe.orientation = "left"
    /\ \E k \in 1 .. Len(probe.ret.positions) :
          ~ CellOnBoard(probe.ret.positions[k])

\* the offsets (cell minus anchor) of a returned list of cells
Offsets(positions, head_x, head_y) ==
    {<< positions[k][1] - head_x, positions[k][2] - head_y >> :
        k \in 1 .. Len(positions)}

\* an offset turned clockwise by quarter turns (x to the right, y downwards)
Turned(d, quarters) ==
    CASE quarters = 0 -> d
      [] quarters = 1 -> << - d[2], d[1] >>
      [] quarters = 2 -> << - d[1], - d[2] >>
      [] quarters = 3 -> << d[2], - d[1] >>

QuarterTurns(orientation) ==
    CASE orientation = "up" -> 0
      [] orientation = "right" -> 1
      [] orientation = "down" -> 2
      [] orientation = "left" -> 3

\* the shape in Up: the head, a 5-cell row one below it, one centre cell two
\* below, a 3-cell row three below
UpOffsets ==
    {<< 0, 0 >>} \cup {<< dx, 1 >> : dx \in -2 .. 2} \cup {<< 0, 2 >>}
        \cup {<< dx, 3 >> : dx \in -1 .. 1}

\* C22: the four orientations are rotations of one shape: for every anchor
\* the offsets produced for Right are those produced for Up turned clockwise
\* by 90 degrees, for Down by 180 degrees, for Left by 270 degrees; in Up the
\* head has a 5-cell row one below it, one centre cell two below and a
\* 3-cell row three below.
C22_OrientationsAreRotations ==
    GeoCalled =>
        LET up == get_plane_positions(probe.head_x, probe.head_y, "up")
            upOffsets == Offsets(up.positions, probe.head_x, probe.head_y)
        IN  /\ Offsets(probe.ret.positions, probe.head_x, probe.head_y) =
                  {Turned(d, QuarterTurns(probe.orientation)) : d \in upOffsets}
            /\ probe.orientation = "up" =>
                  Offsets(probe.ret.positions, probe.head_x, probe.head_y)
                      = UpOffsets

\* C22 witness: the call with anchor (0, 0) and orientation right: the body
\* lies to the left of the head.
C22_Witness ==
    /\ GeoCalled
    /\ probe.head_x = 0
    /\ probe.head_y = 0
    /\ probe.orientation = "right"
    /\ << -3, 1 >> \in SeqToSet(probe.ret.positions)

\* the pieces of side p that contain cell c
PiecesHolding(g, p, c) ==
    {j \in 1 .. Len(g.planes[p]) : InSeq(c, g.planes[p][j].positions)}

\* C23: in every reachable state and for each side, the pieces of that side
\* are pairwise disjoint - no cell belongs to two pieces - so the piece an
\* attacked cell belongs to is unique.
C23_PiecesDisjoint ==
    \A p \in Players :
        /\ \A j \in 1 .. Len(game.planes[p]) : \A k \in 1 .. Len(game.planes[p]) :
              j # k =>
                 SeqToSet(game.planes[p][j].positions)
                     \cap SeqToSet(game.planes[p][k].positions) = {}
        /\ \A j \in 1 .. Len(game.planes[p]) :
              \A c \in SeqToSet(game.planes[p][j].hit_positions) :
                 PiecesHolding(game, p, c) = {j}

\* C23 witness: a side holds two pieces and a body cell of its first piece
\* has been hit.
C23_Witness ==
    \E p \in Players :
        /\ Len(game.planes[p]) = 2
        /\ game.boards[p][3][5] = "hit"
        /\ PiecesHolding(game, p, << 5, 3 >>) = {1}

\* what C24 says of side p: its board against the cells, the heads and the
\* hit cells of its pieces
BoardAgreesWithPieces(g, p) ==
    LET pieces == 1 .. Len(g.planes[p])
        cells == UNION {SeqToSet(g.planes[p][j].positions) : j \in pieces}
        heads == {g.planes[p][j].head_position : j \in pieces}
        \* the cells recorded as hit in the piece that contains them
        hits == UNION {SeqToSet(g.planes[p][j].hit_positions)
                          \cap SeqToSet(g.planes[p][j].positions) : j \in pieces}
    IN  \A y \in Coords : \A x \in Coords :
            LET status == g.boards[p][y][x]
            IN  /\ status \in {"plane", "head", "hit", "head_hit"}
                      <=> << x, y >> \in cells
                /\ status \in {"head", "head_hit"} => << x, y >> \in heads
                /\ status \in {"hit", "head_hit"} <=> << x, y >> \in hits
                /\ status = "miss" => << x, y >> \notin cells

\* C24: in every reachable state and for each side, the board and the pieces
\* agree: the cells whose status is plane, head, hit or head_hit are exactly
\* the cells of that side's pieces; a cell is head or head_hit only if it is
\* the head of a piece; a cell is hit or head_hit exactly if it is among the
\* hit cells of the piece that contains it; a miss cell belongs to no piece.
C24_BoardAgreesWithPieces ==
    \A p \in Players : BoardAgreesWithPieces(game, p)

\* C24 witness: one board shows a destroyed head, a hit body cell, a miss and
\* an unattacked head at once.
C24_Witness ==
    \E p \in Players :
        /\ game.boards[p][2][5] = "head_hit"
        /\ game.boards[p][3][5] = "hit"
        /\ game.boards[p][2][2] = "miss"
        /\ game.boards[p][7][2] = "head"

\* both sides hold the two pieces of the end-to-end scenario, (5,2) up then
\* (2,7) left
ScenarioPlaced(g) ==
    \A p \in Players :
        /\ Len(g.planes[p]) = 2
        /\ g.planes[p][1].positions = CandidateCells[1]
        /\ g.planes[p][2].positions = CandidateCells[2]

\* the targets that have been attacked on side p's board
AttackedTargets(g, p) ==
    {t \in Targets : /\ TargetOnBoard(t)
                     /\ g.boards[p][TargetY(t)][TargetX(t)] \in AttackedStatus}

\* the scenario has come to the point where the targets a1 have been
\* attacked on player1's board and a2 on player2's
ScenarioAt(g, a1, a2) ==
    /\ ScenarioPlaced(g)
    /\ AttackedTargets(g, "player1") = a1
    /\ AttackedTargets(g, "player2") = a2

\* this step ends the place_plane handler of player p
PlaceFinishStep(p) == pc[p] = "placed" /\ pc'[p] = "idle"

\* this step ends the handler of an accepted attack of player p
AttackFinishStep(p) == pc[p] = "attacked" /\ pc'[p] = "idle"

\* C25: the end-to-end scenario runs as described.  The second join gives
\* phase Placing; (5,2) up and then (2,7) left are placed by either player;
\* when the second of the two players has finished placing them the phase
\* is Playing and the turn player1's; player1's attack on (5,2) is a
\* head_hit that destroys player2's first piece and hands the turn to
\* player2; player2's attack on (2,2) is a miss and hands the turn back;
\* player1's attack on (2,7) is a head_hit that destroys player2's second
\* piece, the phase becomes Finished and the winner is player1.
C25_EndToEndScenario ==
    [][ /\ (JoinStep /\ game.players["player1"] # None
                     /\ game.players["player2"] = None) =>
              game'.state = "placing"
        /\ \A p \in Players :
              /\ (PlacePlaneStep(p, 1) /\ game.planes[p] = << >>) =>
                    /\ last'.result = "Plane placed successfully"
                    /\ game'.planes[p][1].positions = CandidateCells[1]
              /\ (/\ Len(game.planes[p]) = 1
                  /\ game.planes[p][1].positions = CandidateCells[1]
                  /\ PlacePlaneStep(p, 2)) =>
                    /\ last'.result = "Plane placed successfully"
                    /\ game'.planes[p][2].positions = CandidateCells[2]
              /\ (/\ PlaceFinishStep(p)
                  /\ game.state = "placing"
                  /\ game.ready[Opponent(p)]
                  /\ ScenarioAt(game, {}, {})) =>
                    /\ game'.state = "playing"
                    /\ game'.current_turn = "player1"
        /\ (/\ game.state = "playing"
            /\ ScenarioAt(game, {}, {})
            /\ AttackStep("player1", 1)) =>
              /\ last'.result = "head_hit"
              /\ game'.planes["player2"][1].is_destroyed
              /\ ~ game'.planes["player2"][2].is_destroyed
        /\ (AttackFinishStep("player1") /\ ScenarioAt(game, {}, {1})) =>
              /\ game'.current_turn = "player2"
              /\ game'.state = "playing"
        /\ (/\ game.state = "playing"
            /\ game.current_turn = "player2"
            /\ ScenarioAt(game, {}, {1})
            /\ AttackStep("player2", 4)) =>
              last'.result = "miss"
        /\ (AttackFinishStep("player2") /\ ScenarioAt(game, {4}, {1})) =>
              /\ game'.current_turn = "player1"
              /\ game'.state = "playing"
        /\ (/\ game.state = "playing"
            /\ game.current_turn = "player1"
            /\ ScenarioAt(game, {4}, {1})
            /\ AttackStep("player1", 2)) =>
              /\ last'.result = "head_hit"
              /\ game'.planes["player2"][2].is_destroyed
        /\ (AttackFinishStep("player1") /\ ScenarioAt(game, {4}, {1, 2})) =>
              /\ game'.state = "finished"
              /\ check_winner(game') = "player1" ]_vars

\* C25 witness: the scenario has been played to its end: the three attacks
\* and no other are on the boards, the phase is Finished, player1 has won.
C25_Witness ==
    /\ ScenarioAt(game, {4}, {1, 2})
    /\ game.state = "finished"
    /\ check_winner(game) = "player1"
    /\ last = Event("attack_done", "player1", "game_over")

\* this step is an attack message of player p during which a board is written
BoardWrittenByAttackOf(p) ==
    /\ last'.op = "attack"
    /\ last'.player = p
    /\ game'.boards # game.boards

\* C27: under every interleaving of the two players' handlers at their
\* awaits, an attack writes a board only if, when Game.attack runs, the
\* phase is Playing and the attacker holds the turn; while an attacker's
\* handler is suspended between its attack and the switch of the turn, no
\* attack of the other player is applied.
C27_AttackOnlyByTurnHolder ==
    [][ \A p \in Players :
          BoardWrittenByAttackOf(p) =>
             /\ game.state = "playing"
             /\ game.current_turn = p
             /\ pc[p] = "idle"
             /\ pc[Opponent(p)] # "attacked"
             /\ game'.boards[p] = game.boards[p] ]_vars

\* C27 witness: while the attacker's handler is suspended before the switch
\* of the turn, the other player sent an attack and got "Not your turn".
C27_Witness ==
    /\ last.op = "attack"
    /\ last.result = "Not your turn"
    /\ pc[Opponent(last.player)] = "attacked"
    /\ game.current_turn = Opponent(last.player)

\* this step sends the broadcast named b ("game_started" or "game_over")
BroadcastStep(b) == last'.result = b /\ last' # last

\* C28: in a run of one match the game_started broadcast is sent once, by
\* the step in which the phase first becomes Playing, and the game_over
\* broadcast at most once, by the step in which the phase becomes Finished,
\* whatever place_plane or attack messages follow.
C28_BroadcastsSentOnce ==
    [][ /\ BroadcastStep("game_started") =>
             /\ game.state \in {"waiting", "placing"}
             /\ game'.state = "playing"
        /\ BroadcastStep("game_over") =>
             /\ game.state = "playing"
             /\ game'.state = "finished" ]_vars

\* the cells of the pieces of player p, piece by piece
PieceCells(g, p) == [k \in 1 .. Len(g.planes[p]) |-> g.planes[p][k].positions]

\* C29: no place_plane succeeds once the phase is Playing or Finished:
\* whenever the phase is Playing or Finished both sides hold exactly 2
\* pieces, and from then on the piece cells of both sides are fixed and the
\* boards change only by the outcome of an attack.
C29_NoPlacementOncePlaying ==
    /\ [](game.state \in {"playing", "finished"} =>
            \A p \in Players : Len(game.planes[p]) = 2)
    /\ [][ game.state \in {"playing", "finished"} =>
            /\ last'.op = "place_plane" => last'.result # "Plane placed successfully"
            /\ \A p \in Players : PieceCells(game', p) = PieceCells(game, p)
            /\ game'.boards # game.boards =>
                 /\ last'.op = "attack"
                 /\ \A p \in Players, y \in Coords, x \in Coords :
                      game'.boards[p][y][x] # game.boards[p][y][x] =>
                         game'.boards[p][y][x] = OutcomeOf(game.boards[p][y][x]) ]_vars

\* C29 witness: a place_plane message handled in phase Playing, after an
\* attack has been applied, was rejected.
C29_Witness ==
    /\ game.state = "playing"
    /\ last.op = "place_plane"
    /\ last.result = "Already placed 2 planes"
    /\ \E y \in Coords, x \in Coords :
          game.boards[Opponent(last.player)][y][x] \in AttackedStatus

\* the two Game objects have been given at least one call
BothCalled == probe.call \in {"add_player", "place_plane", "attack"}

\* C30: given the same sequence of add_player, place_plane and attack calls
\* (anchors and attack coordinates possibly off the board), main.Game and
\* domain.models.Game return the same result for every call, the error of a
\* rejected placement included, and hold equal boards, pieces and phase.
C30_GameClassesAgree ==
    BothCalled =>
       /\ probe.main_ret = probe.domain_ret
       /\ probe.main.boards = probe.domain.boards
       /\ probe.main.planes = probe.domain.planes
       /\ probe.main.state = probe.domain.state

\* this step is a handler step of match game_id
HandlerStepOf(game_id) == probe.call = "registry" /\ probe'.handled = game_id

\* C26: matches are independent: a connect, place_plane, attack or
\* disconnect handled for one match identifier leaves the phase, turn,
\* ready flags, boards, pieces and connection entries of every other match
\* unchanged, under any interleaving of handlers of different matches.
C26_MatchesIndependent ==
    [][ \A gid \in GameIds :
          HandlerStepOf(gid) =>
             \A other \in GameIds \ {gid} :
                /\ probe'.games[other] = probe.games[other]
                /\ probe'.active_connections[other] =
                      probe.active_connections[other] ]_vars

\* C26 witness: an attack of match g1 has just been applied while a
\* place_plane handler of match g2 is suspended at its await, and both
\* matches have player1 connected.
C26_Witness ==
    /\ probe.call = "registry"
    /\ probe.handled = "g1"
    /\ probe.pcs["g1"]["player1"] = "attacked"
    /\ probe.games["g1"].boards["player2"][2][5] = "head_hit"
    /\ probe.pcs["g2"]["player2"] = "placed"
    /\ Len(probe.games["g2"].planes["player2"]) = 1
    /\ "player1" \in probe.active_connections["g1"]
    /\ "player1" \in probe.active_connections["g2"]

\* the cells of player p's board that this step writes
CellsWritten(p) ==
    {c \in Coords \X Coords :
        game'.boards[p][c[2]][c[1]] # game.boards[p][c[2]][c[1]]}

\* the cells of player p's board that have been attacked
AttackedCells(g, p) ==
    {c \in Coords \X Coords : g.boards[p][c[2]][c[1]] \in AttackedStatus}

\* C31: every accepted attack (hit, head_hit or miss) turns one cell of the
\* defender's board that was not attacked into an attacked one, and no step
\* turns an attacked cell back, so that an attacker has at most
\* BOARD_SIZE * BOARD_SIZE accepted attacks; if each player, whenever it is
\* their turn, eventually attacks a cell of the board not attacked before,
\* a match that reaches Playing reaches Finished.
C31_AttacksConsumeCellsAndFinish ==
    /\ [][ \A p \in Players :
            /\ game'.boards[p] # game.boards[p] =>
                 \A c \in CellsWritten(p) :
                    game.boards[p][c[2]][c[1]] \notin AttackedStatus
            /\ AcceptedAttackStep(p) =>
                 /\ last'.result \in AcceptedResults
                 /\ game'.boards[p] = game.boards[p]
                 /\ Cardinality(CellsWritten(Opponent(p))) = 1
                 /\ \A c \in CellsWritten(Opponent(p)) :
                      game'.boards[Opponent(p)][c[2]][c[1]] \in AttackedStatus ]_vars
    /\ <>(game.state = "playing") => <>(game.state = "finished")

\* C31 witness: the match is Finished after accepted attacks of both
\* players, a miss among them.
C31_Witness ==
    /\ game.state = "finished"
    /\ last = Event("attack_done", "player2", "game_over")
    /\ \E c \in AttackedCells(game, "player2") :
          game.boards["player2"][c[2]][c[1]] = "miss"
    /\ Cardinality(AttackedCells(game, "player1")) >= 2

\* a player has just been given the masked board of the opponent in both runs
MaskedBoardsReturned == probe.call = "get_masked_board"

\* the board of player p has the same attacked cells, with the same status,
\* in both runs
SameAttackedCells(p) ==
    LET b1 == probe.runs[1].boards[p]
        b2 == probe.runs[2].boards[p]
    IN  \A y \in Coords, x \in Coords :
           (b1[y][x] \in AttackedStatus \/ b2[y][x] \in AttackedStatus) =>
              b1[y][x] = b2[y][x]

\* C32: what a player sees of the opponent's board depends only on the
\* attacked cells: for two runs in which the opponent's placements differ
\* but every attacked cell has the same status (hit, head_hit or miss) in
\* both, get_masked_board returns the same grid to the attacking player.
C32_MaskedBoardDependsOnAttacksOnly ==
    (MaskedBoardsReturned /\ SameAttackedCells(Opponent(probe.viewer))) =>
       probe.masked[1] = probe.masked[2]

\* C32 witness: the opponent holds different pieces in the two runs, one
\* cell of the opponent's board was attacked with the same outcome in both,
\* and the masked boards were returned.
C32_Witness ==
    /\ MaskedBoardsReturned
    /\ SameAttackedCells(Opponent(probe.viewer))
    /\ probe.runs[1].planes[Opponent(probe.viewer)] # << >>
    /\ probe.runs[2].planes[Opponent(probe.viewer)] # << >>
    /\ probe.runs[1].boards[Opponent(probe.viewer)] #
          probe.runs[2].boards[Opponent(probe.viewer)]
    /\ \E y \in Coords, x \in Coords :
          probe.runs[1].boards[Opponent(probe.viewer)][y][x] \in AttackedStatus

====
